---------------------------- MODULE Spec2Model ----------------------------
(***************************************************************************)
(* cppsock::socketaddr (src/cppsock_socketaddr.cpp): an address-family     *)
(* aware endpoint value kept in one raw storage region (a union over the   *)
(* native sockaddr structures).                                            *)
(*                                                                         *)
(* The storage is modelled byte by byte, as memset / memcpy / memcmp see   *)
(* it, on the platform the layout constants below describe: Linux, glibc,  *)
(* little-endian host.  A text (std::string) is a sequence of characters,  *)
(* each character a one-character string; NUL stands for '\0'.             *)
(***************************************************************************)
EXTENDS Integers, Sequences, FiniteSets, TLC

(***************************************************************************)
(* Platform layout and error numbers the source refers to by name.         *)
(***************************************************************************)
AF_UNSPEC == 0
AF_INET == 2
AF_INET6 == 10
EAFNOSUPPORT == 97
EINVAL == 22
\* sizeof(this->sa): the union holds a sockaddr_storage
StorageSize == 128
\* sizeof(this->sa.sin), sizeof(this->sa.sin6)
SizeofSin == 16
SizeofSin6 == 28
\* offsets of sin_port / sin6_port, sin_addr, sin6_addr in the union
PortOff == 2
SinAddrOff == 4
Sin6AddrOff == 8
\* sizes of in_addr and in6_addr
InAddrSz == 4
In6AddrSz == 16
INET6_ADDRSTRLEN == 46

Byte == 0..255
Idx == 0..(StorageSize - 1)

(***************************************************************************)
(* Characters and C strings.                                               *)
(***************************************************************************)
NUL == "NUL"
DecDigits == <<"0", "1", "2", "3", "4", "5", "6", "7", "8", "9">>
HexLower == DecDigits \o <<"a", "b", "c", "d", "e", "f">>
HexUpper == DecDigits \o <<"A", "B", "C", "D", "E", "F">>

IsDigit(ch) == \E k \in 1..10 : DecDigits[k] = ch
DigitVal(ch) == (CHOOSE k \in 1..10 : DecDigits[k] = ch) - 1

\* glibc hex_digit_value: 0..15, or -1 when ch is no hexadecimal digit
hex_digit_value(ch) ==
    IF \E k \in 1..16 : HexLower[k] = ch
    THEN (CHOOSE k \in 1..16 : HexLower[k] = ch) - 1
    ELSE IF \E k \in 1..16 : HexUpper[k] = ch
    THEN (CHOOSE k \in 1..16 : HexUpper[k] = ch) - 1
    ELSE -1

\* What a const char* reader sees of std::string::data(): the characters
\* before the first '\0' (the string's own terminator when it holds none).
CStr(s) ==
    IF \E k \in 1..Len(s) : s[k] = NUL
    THEN SubSeq(s, 1, (CHOOSE k \in 1..Len(s) :
                          s[k] = NUL /\ \A j \in 1..(k - 1) : s[j] # NUL) - 1)
    ELSE s

\* printf("%u") / ostream << of an unsigned value
RECURSIVE DecStr(_)
DecStr(n) ==
    IF n < 10 THEN <<DecDigits[n + 1]>>
    ELSE DecStr(n \div 10) \o <<DecDigits[(n % 10) + 1]>>

\* printf("%x")
RECURSIVE HexStr(_)
HexStr(n) ==
    IF n < 16 THEN <<HexLower[n + 1]>>
    ELSE HexStr(n \div 16) \o <<HexLower[(n % 16) + 1]>>

(***************************************************************************)
(* inet_pton (glibc resolv/inet_pton.c), as called at lines 13 and 74.     *)
(* Each parser yields [rc, bytes]: rc = 1 and the parsed bytes, or rc = 0  *)
(* and nothing stored.                                                     *)
(***************************************************************************)
PtonFail == [rc |-> 0, bytes |-> <<>>]

\* inet_pton4's loop: k is the read position, tp the octet being built
RECURSIVE inet_pton4_loop(_, _, _, _, _, _)
inet_pton4_loop(src, k, tmp, tp, octets, saw_digit) ==
    IF k > Len(src)
    THEN IF octets < 4 THEN PtonFail ELSE [rc |-> 1, bytes |-> tmp]
    ELSE LET ch == src[k] IN
         IF IsDigit(ch)
         THEN LET new == tmp[tp] * 10 + DigitVal(ch) IN
              IF saw_digit /\ tmp[tp] = 0 THEN PtonFail
              ELSE IF new > 255 THEN PtonFail
              ELSE IF ~saw_digit /\ octets + 1 > 4 THEN PtonFail
              ELSE inet_pton4_loop(src, k + 1, [tmp EXCEPT ![tp] = new], tp,
                                   IF saw_digit THEN octets ELSE octets + 1,
                                   TRUE)
         ELSE IF ch = "." /\ saw_digit
         THEN IF octets = 4 THEN PtonFail
              ELSE inet_pton4_loop(src, k + 1, [tmp EXCEPT ![tp + 1] = 0],
                                   tp + 1, octets, FALSE)
         ELSE PtonFail

inet_pton4(src) == inet_pton4_loop(src, 1, <<0, 0, 0, 0>>, 1, 0, FALSE)

ZeroBytes(n) == [k \in 1..n |-> 0]

\* tmp with the 16-bit value val stored big-endian at byte position tp (0-based)
PutWord(tmp, tp, val) ==
    [tmp EXCEPT ![tp + 1] = (val \div 256) % 256, ![tp + 2] = val % 256]

\* inet_pton6 after its loop: the pending group, then the expansion of "::"
inet_pton6_finish(tmp, tp, colonp, xdigits_seen, val) ==
    IF xdigits_seen > 0 /\ tp + 2 > In6AddrSz THEN PtonFail
    ELSE LET tmp1 == IF xdigits_seen > 0 THEN PutWord(tmp, tp, val) ELSE tmp
             tp1 == IF xdigits_seen > 0 THEN tp + 2 ELSE tp
         IN  IF colonp # -1
             THEN IF tp1 = In6AddrSz THEN PtonFail
                  ELSE LET n == tp1 - colonp IN
                       \* memmove(endp - n, colonp, n); memset(colonp, 0, ...)
                       [rc |-> 1,
                        bytes |-> [j \in 1..In6AddrSz |->
                                      IF j - 1 >= In6AddrSz - n
                                      THEN tmp1[(j - 1) - (In6AddrSz - n) + colonp + 1]
                                      ELSE IF j - 1 >= colonp THEN 0
                                      ELSE tmp1[j]]]
             ELSE IF tp1 # In6AddrSz THEN PtonFail
             ELSE [rc |-> 1, bytes |-> tmp1]

\* inet_pton6's loop: k the read position, tp the bytes stored so far,
\* colonp the position of "::" (-1: none), curtok the start of the current
\* group
RECURSIVE inet_pton6_loop(_, _, _, _, _, _, _, _)
inet_pton6_loop(src, k, tmp, tp, colonp, curtok, xdigits_seen, val) ==
    IF k > Len(src)
    THEN inet_pton6_finish(tmp, tp, colonp, xdigits_seen, val)
    ELSE LET ch == src[k]
             digit == hex_digit_value(ch)
         IN
         IF digit >= 0
         THEN IF xdigits_seen = 4 THEN PtonFail
              ELSE IF val * 16 + digit > 65535 THEN PtonFail
              ELSE inet_pton6_loop(src, k + 1, tmp, tp, colonp, curtok,
                                   xdigits_seen + 1, val * 16 + digit)
         ELSE IF ch = ":"
         THEN IF xdigits_seen = 0
              THEN IF colonp # -1 THEN PtonFail
                   ELSE inet_pton6_loop(src, k + 1, tmp, tp, tp, k + 1, 0, val)
              ELSE IF k + 1 > Len(src) THEN PtonFail
              ELSE IF tp + 2 > In6AddrSz THEN PtonFail
              ELSE inet_pton6_loop(src, k + 1, PutWord(tmp, tp, val), tp + 2,
                                   colonp, k + 1, 0, 0)
         ELSE IF ch = "." /\ tp + InAddrSz <= In6AddrSz
                 /\ inet_pton4(SubSeq(src, curtok, Len(src))).rc > 0
         THEN LET v4 == inet_pton4(SubSeq(src, curtok, Len(src))).bytes IN
              inet_pton6_finish(
                  [j \in 1..In6AddrSz |->
                      IF j - 1 >= tp /\ j - 1 < tp + InAddrSz
                      THEN v4[j - tp] ELSE tmp[j]],
                  tp + InAddrSz, colonp, 0, val)
         ELSE PtonFail

inet_pton6(src) ==
    IF Len(src) = 0 THEN PtonFail
    ELSE IF src[1] = ":"
    THEN IF Len(src) < 2 \/ src[2] # ":" THEN PtonFail
         ELSE inet_pton6_loop(src, 2, ZeroBytes(In6AddrSz), 0, -1, 2, 0, 0)
    ELSE inet_pton6_loop(src, 1, ZeroBytes(In6AddrSz), 0, -1, 1, 0, 0)

\* inet_pton(af, src, dst): 1 parsed, 0 not a literal of af, -1 unknown af;
\* src is read as a C string
inet_pton_parse(af, src) ==
    IF af = AF_INET THEN inet_pton4(CStr(src))
    ELSE IF af = AF_INET6 THEN inet_pton6(CStr(src))
    ELSE [rc |-> -1, bytes |-> <<>>]

(***************************************************************************)
(* inet_ntop (glibc resolv/inet_ntop.c), as called at line 147.            *)
(***************************************************************************)
inet_ntop4(b) ==
    DecStr(b[1]) \o <<".">> \o DecStr(b[2]) \o <<".">> \o DecStr(b[3])
        \o <<".">> \o DecStr(b[4])

Words(b) == [i \in 0..7 |-> b[2 * i + 1] * 256 + b[2 * i + 2]]

\* the run of zero words starting at i: its length
RECURSIVE ZeroRun(_, _)
ZeroRun(w, i) == IF i > 7 \/ w[i] # 0 THEN 0 ELSE 1 + ZeroRun(w, i + 1)

\* the first longest run of zero words, if it is at least two words long
BestRun(w) ==
    LET starts == {i \in 0..7 : w[i] = 0 /\ (i = 0 \/ w[i - 1] # 0)}
        longest == {i \in starts : \A j \in starts : ZeroRun(w, j) <= ZeroRun(w, i)}
    IN  IF starts = {} THEN [base |-> -1, len |-> 0]
        ELSE LET b == CHOOSE i \in longest : \A j \in longest : i <= j IN
             IF ZeroRun(w, b) < 2 THEN [base |-> -1, len |-> 0]
             ELSE [base |-> b, len |-> ZeroRun(w, b)]

RECURSIVE inet_ntop6_loop(_, _, _, _)
inet_ntop6_loop(b, w, best, i) ==
    LET trail == IF best.base # -1 /\ best.base + best.len = 8
                 THEN <<":">> ELSE <<>>
    IN
    IF i > 7 THEN trail
    ELSE IF best.base # -1 /\ i >= best.base /\ i < best.base + best.len
    THEN (IF i = best.base THEN <<":">> ELSE <<>>)
             \o inet_ntop6_loop(b, w, best, i + 1)
    ELSE LET sep == IF i # 0 THEN <<":">> ELSE <<>> IN
         IF i = 6 /\ best.base = 0
            /\ (best.len = 6 \/ (best.len = 5 /\ w[5] = 65535))
         THEN sep \o inet_ntop4(SubSeq(b, 13, 16)) \o trail
         ELSE sep \o HexStr(w[i]) \o inet_ntop6_loop(b, w, best, i + 1)

inet_ntop6(b) == inet_ntop6_loop(b, Words(b), BestRun(Words(b)), 0)

inet_ntop(af, b) == IF af = AF_INET THEN inet_ntop4(b) ELSE inet_ntop6(b)


(***************************************************************************)
(* Inputs.  Texts are std::string values: IPv4 literals, IPv6 literals in  *)
(* several spellings, and texts that are no literal (one of them a literal *)
(* followed by '\0' and more characters).                                  *)
(***************************************************************************)
T_127_0_0_1 ==
    <<"1", "2", "7", ".", "0", ".", "0", ".", "1">>
T_10_0_0_1 ==
    <<"1", "0", ".", "0", ".", "0", ".", "1">>
T_loop6 ==
    <<":", ":", "1">>
T_loop6_full ==
    <<"0", ":", "0", ":", "0", ":", "0", ":", "0", ":", "0", ":", "0", ":",
      "1">>
T_FE80_upper ==
    <<"F", "E", "8", "0", ":", ":", "1">>
T_mapped ==
    <<":", ":", "f", "f", "f", "f", ":", "1", "0", ".", "0", ".", "0", ".",
      "1">>
T_compat ==
    <<":", ":", "1", ":", "0">>
T_not_an_ip ==
    <<"n", "o", "t", "-", "a", "n", "-", "i", "p">>
T_10_0_0_1_nul ==
    <<"1", "0", ".", "0", ".", "0", ".", "1", NUL, "x">>
T_loop6_nul ==
    <<":", ":", "1", NUL, "x">>
T_three_octets ==
    <<"1", ".", "2", ".", "3">>
T_leading_zero ==
    <<"0", "1", ".", "2", ".", "3", ".", "4">>
T_two_gaps ==
    <<"1", ":", ":", "2", ":", ":", "3">>
T_empty ==
    <<>>

Texts ==
    {T_127_0_0_1, T_10_0_0_1, T_loop6, T_loop6_full,
     T_FE80_upper, T_mapped, T_compat, T_not_an_ip,
     T_10_0_0_1_nul, T_loop6_nul, T_three_octets, T_leading_zero,
     T_two_gaps, T_empty}

\* the parses of the input texts, computed once
PtonTable ==
    [af \in {AF_INET, AF_INET6}, t \in Texts |-> inet_pton_parse(af, t)]

inet_pton(af, src) ==
    IF af \in {AF_INET, AF_INET6} /\ src \in Texts THEN PtonTable[af, src]
    ELSE inet_pton_parse(af, src)

(***************************************************************************)
(* The storage region and the byte-level library calls on it.              *)
(***************************************************************************)
\* memset(&this->sa, 0, sizeof(this->sa))
Zero == [k \in Idx |-> 0]

\* memcpy of the byte sequence bytes to offset off of s
WriteBytes(s, off, bytes) ==
    [k \in off..(off + Len(bytes) - 1) |-> bytes[k - off + 1]] @@ s

ReadBytes(s, off, n) == [j \in 1..n |-> s[off + j - 1]]

\* memcpy(&this->sa, &other.sa, sizeof(socketaddr::sa)): every byte of the
\* destination is replaced
memcpy_all(dst, src) == src @@ dst

\* this->sa.sa_family: a 16-bit sa_family_t at offset 0, host byte order
sa_family(s) == s[0] + 256 * s[1]

\* cppsock::hton<uint16_t> / ntoh<uint16_t> on a little-endian host
hton16(v) == (v % 256) * 256 + (v \div 256)
ntoh16(v) == (v % 256) * 256 + (v \div 256)

\* a uint16 field at offset off, read and written in host byte order
LoadU16(s, off) == s[off] + 256 * s[off + 1]
StoreU16(s, off, v) == [s EXCEPT ![off] = v % 256, ![off + 1] = v \div 256]

\* memcmp(a, b, n): the sign of the first differing pair of unsigned bytes
memcmp(a, b, n) ==
    IF \A k \in 0..(n - 1) : a[k] = b[k] THEN 0
    ELSE LET d == CHOOSE k \in 0..(n - 1) :
                     a[k] # b[k] /\ \A j \in 0..(k - 1) : a[j] = b[j]
         IN  IF a[d] < b[d] THEN -1 ELSE 1

(***************************************************************************)
(* socketaddr's member functions, as functions of the storage.  A function *)
(* that returns error_t and writes yields [err, sa].                       *)
(***************************************************************************)
is(family, ip) == inet_pton(family, ip).rc = 1
is_ipv4(ip) == is(AF_INET, ip)
is_ipv6(ip) == is(AF_INET6, ip)

\* a set_family that sets the tag and clears nothing
set_family_keeps(s, fam) ==
    [s EXCEPT ![0] = fam % 256, ![1] = (fam \div 256) % 256]

set_family(s, fam) ==
    [Zero EXCEPT ![0] = fam % 256, ![1] = (fam \div 256) % 256]

\* a set_addr that writes every address at the offset of sin_addr
set_addr_sin_offset(s, ip) ==
    LET fam == sa_family(s)
        r == inet_pton(fam, ip)
    IN  IF fam # AF_INET /\ fam # AF_INET6
        THEN [err |-> EAFNOSUPPORT, sa |-> s]
        ELSE IF r.rc = 0 THEN [err |-> EINVAL, sa |-> s]
        ELSE [err |-> 0, sa |-> WriteBytes(s, SinAddrOff, r.bytes)]

set_addr(s, ip) ==
    LET fam == sa_family(s)
        r == inet_pton(fam, ip)
    IN  IF fam # AF_INET /\ fam # AF_INET6
        THEN [err |-> EAFNOSUPPORT, sa |-> s]
        ELSE IF r.rc = 0 THEN [err |-> EINVAL, sa |-> s]
        ELSE [err |-> 0,
              sa |-> WriteBytes(s, IF fam = AF_INET THEN SinAddrOff
                                   ELSE Sin6AddrOff, r.bytes)]

\* a set_port that stores the port in host byte order
set_port_host_order(s, port) ==
    IF sa_family(s) = AF_INET \/ sa_family(s) = AF_INET6
    THEN [err |-> 0, sa |-> StoreU16(s, PortOff, port)]
    ELSE [err |-> EAFNOSUPPORT, sa |-> s]

set_port(s, port) ==
    IF sa_family(s) = AF_INET \/ sa_family(s) = AF_INET6
    THEN [err |-> 0, sa |-> StoreU16(s, PortOff, hton16(port))]
    ELSE [err |-> EAFNOSUPPORT, sa |-> s]

\* a set that clears the object before it looks at the text
set_clears_first(s, addr, port) ==
    IF ~is(AF_INET, addr) /\ ~is(AF_INET6, addr)
    THEN [err |-> EAFNOSUPPORT, sa |-> set_family(s, AF_UNSPEC)]
    ELSE set_port(set_addr(set_family(s, IF is(AF_INET, addr) THEN AF_INET
                                         ELSE AF_INET6), addr).sa, port)

\* set(const std::string&, uint16_t)
set(s, addr, port) ==
    IF ~is(AF_INET, addr) /\ ~is(AF_INET6, addr)
    THEN [err |-> EAFNOSUPPORT, sa |-> s]
    ELSE LET s1 == set_family(s, IF is(AF_INET, addr) THEN AF_INET
                                 ELSE AF_INET6)
             r1 == set_addr(s1, addr)
         IN  IF r1.err # 0 THEN r1 ELSE set_port(r1.sa, port)

\* a set(const sockaddr*) that copies sizeof(sockaddr_in) for both families
set_native_sin_size(s, data, aliased) ==
    LET s0 == set_family(s, AF_UNSPEC)
        d == IF aliased THEN s0 ELSE data
    IN  IF sa_family(d) = AF_INET \/ sa_family(d) = AF_INET6
        THEN WriteBytes(s0, 0, ReadBytes(d, 0, SizeofSin))
        ELSE s0

\* a set(const sockaddr*) that copies sizeof(this->sa) bytes
set_native_whole(s, data, aliased) ==
    LET s0 == set_family(s, AF_UNSPEC)
        d == IF aliased THEN s0 ELSE data
    IN  IF sa_family(d) = AF_INET \/ sa_family(d) = AF_INET6
        THEN WriteBytes(s0, 0, ReadBytes(d, 0, StorageSize))
        ELSE s0

\* set(const sockaddr*): data is the memory the pointer refers to as the
\* memcpy reads it; aliased says that the pointer refers to this->sa itself,
\* which the memset has cleared by then
set_native(s, data, aliased) ==
    LET s0 == set_family(s, AF_UNSPEC)
        d == IF aliased THEN s0 ELSE data
    IN  IF sa_family(d) = AF_INET
        THEN WriteBytes(s0, 0, ReadBytes(d, 0, SizeofSin))
        ELSE IF sa_family(d) = AF_INET6
        THEN WriteBytes(s0, 0, ReadBytes(d, 0, SizeofSin6))
        ELSE s0

get_family(s) == sa_family(s)

\* get_addr(std::string&): buf is the caller's string; [err, buf]
get_addr(s, buf) ==
    LET fam == sa_family(s)
        txt == inet_ntop(fam, ReadBytes(s, IF fam = AF_INET THEN SinAddrOff
                                           ELSE Sin6AddrOff,
                                        IF fam = AF_INET THEN InAddrSz
                                        ELSE In6AddrSz))
        \* buf.resize(INET6_ADDRSTRLEN): kept characters, then '\0' fill
        resized == [j \in 1..INET6_ADDRSTRLEN |->
                       IF j <= Len(buf) THEN buf[j] ELSE NUL]
        \* inet_ntop writes the text and its terminator at &buf[0]
        written == [j \in 1..INET6_ADDRSTRLEN |->
                       IF j <= Len(txt) THEN txt[j]
                       ELSE IF j = Len(txt) + 1 THEN NUL
                       ELSE resized[j]]
    IN  IF fam # AF_INET /\ fam # AF_INET6
        THEN [err |-> EAFNOSUPPORT, buf |-> buf]
        ELSE [err |-> 0, buf |-> CStr(written)]

\* a get_port that reads the port field whatever the family
get_port_any_family(s, port) ==
    [err |-> 0, port |-> ntoh16(LoadU16(s, PortOff))]

\* get_port(uint16_t&): port is the caller's variable; [err, port]
get_port(s, port) ==
    IF sa_family(s) = AF_INET \/ sa_family(s) = AF_INET6
    THEN [err |-> 0, port |-> ntoh16(LoadU16(s, PortOff))]
    ELSE [err |-> EAFNOSUPPORT, port |-> port]

\* the value-returning get_addr() and get_port()
get_addr_str(s) == get_addr(s, <<>>).buf
get_port_val(s) == get_port(s, 0).port

OpEqual(a, b) == memcmp(a, b, StorageSize) = 0
OpNotEqual(a, b) == memcmp(a, b, StorageSize) # 0
\* an operator< that is <=
OpLess_or_equal(a, b) == memcmp(a, b, StorageSize) <= 0
OpLess(a, b) == memcmp(a, b, StorageSize) < 0

ErrorText ==
    <<"e", "r", "r", "o", "r", ":", " ", "u", "n", "k", "n", "o", "w", "n",
      " ", "a", "d", "d", "r", "e", "s", "s", " ", "f", "a", "m", "i", "l",
      "y">>

\* operator<<(std::ostream&, const socketaddr&): the characters written
to_display_string(s) ==
    IF get_family(s) = AF_INET
    THEN get_addr_str(s) \o <<":">> \o DecStr(get_port_val(s))
    ELSE IF get_family(s) = AF_INET6
    THEN <<"[">> \o get_addr_str(s) \o <<"]", ":">> \o DecStr(get_port_val(s))
    ELSE ErrorText


(***************************************************************************)
(* Ports, families and native structures the operations are called with.   *)
(***************************************************************************)
\* the number of ports of PortList the operations are called with
NumPorts == 3
PortList == <<8080, 65535, 0, 443, 53>>
Ports == {PortList[k] : k \in 1..NumPorts}

\* sa_family_t values handed to set_family: the three the type knows and
\* one it does not (AF_UNIX)
Families == {AF_UNSPEC, AF_INET, AF_INET6, 1}

\* a storage holding the byte sequence bytes at offset 0 and fill elsewhere
Image(bytes, fill) ==
    [k \in Idx |-> IF k < Len(bytes) THEN bytes[k + 1] ELSE fill]

\* Structures the native socket layer hands over or writes: a sockaddr_in
\* (192.168.0.1:80) and a sockaddr_in6 (fe80::1 port 443, scope id 2), each
\* in a buffer whose bytes past the structure were never written (0xCC),
\* and a sockaddr_un ("/x")
ExtSin == Image(<<2, 0, 0, 80, 192, 168, 0, 1, 0, 0, 0, 0, 0, 0, 0, 0>>, 204)
ExtSin6 ==
    Image(<<10, 0, 1, 187, 0, 0, 0, 0,
            254, 128, 0, 0, 0, 0, 0, 0, 0, 0, 0, 0, 0, 0, 0, 1,
            2, 0, 0, 0>>, 204)
ExtSun == Image(<<1, 0, 47, 120>>, 0)
ExternalStructs == <<ExtSin, ExtSin6, ExtSun>>
ExtIds == 1..Len(ExternalStructs)

\* the bytes of a native structure the socket layer writes: its family's span
NativeSpan(w) ==
    IF sa_family(w) = AF_INET THEN SizeofSin
    ELSE IF sa_family(w) = AF_INET6 THEN SizeofSin6
    ELSE StorageSize

\* What the member sa may hold when a constructor runs and has not yet
\* written it: the memory's previous content
Indeterminate == {Image(<<>>, 204), ExtSin}


(***************************************************************************)
(* The state: three socketaddr objects, what the program has done to each, *)
(* and the last call with its arguments and results.                       *)
(***************************************************************************)
VARIABLES
    sa,     \* sa[i]: the storage region of object i
    hist,   \* hist[i]: how object i came to its value (see Touched)
    ret     \* the last call: operation, arguments, returned values

vars == <<sa, hist, ret>>

Objs == {1, 2, 3}

\* hist[i].fromDefault: i was default-constructed and since then changed only
\* by set_family, set_addr, set_port, set and copies of such objects.
\* hist[i].bySet: the value of i is the one a successful set(text, port) left.
Fresh == [fromDefault |-> TRUE, bySet |-> FALSE]
Foreign == [fromDefault |-> FALSE, bySet |-> FALSE]

\* a call record; each action fills in what it uses
Call(op, obj) ==
    [op |-> op, obj |-> obj, other |-> 0, ext |-> 0, text |-> <<>>,
     port |-> 0, fam |-> 0, err |-> 0, outText |-> <<>>, outNum |-> 0,
     outBool |-> FALSE]

Init ==
    /\ sa = [i \in Objs |-> Zero]
    /\ hist = [i \in Objs |-> Fresh]
    /\ ret = Call("socketaddr", 0)

\* socketaddr(): object i is constructed anew
Construct(i) ==
    /\ sa' = [sa EXCEPT ![i] = Zero]
    /\ hist' = [hist EXCEPT ![i] = Fresh]
    /\ ret' = Call("socketaddr", i)

\* socketaddr(const socketaddr&): object i is constructed anew from j
CopyConstruct(i, j) ==
    /\ i # j
    /\ sa' = [sa EXCEPT ![i] = memcpy_all(sa[i], sa[j])]
    /\ hist' = [hist EXCEPT ![i] = hist[j]]
    /\ ret' = [Call("socketaddr_copy", i) EXCEPT !.other = j]

\* socketaddr(const std::string&, uint16_t): object i is constructed anew;
\* nothing writes sa before set() runs, and the result of set() is dropped
ConstructString(i, addr, port) ==
    \E garbage \in Indeterminate :
        LET r == set(garbage, addr, port) IN
        /\ sa' = [sa EXCEPT ![i] = r.sa]
        /\ hist' = [hist EXCEPT ![i] = [fromDefault |-> FALSE,
                                          bySet |-> r.err = 0]]
        /\ ret' = [Call("socketaddr_string", i) EXCEPT
                       !.text = addr, !.port = port]

\* operator=(const socketaddr&); i = j would hand memcpy overlapping regions
Assign(i, j) ==
    /\ i # j
    /\ sa' = [sa EXCEPT ![i] = memcpy_all(sa[i], sa[j])]
    /\ hist' = [hist EXCEPT ![i] = hist[j]]
    /\ ret' = [Call("assign", i) EXCEPT !.other = j]

SetFamily(i, fam) ==
    /\ sa' = [sa EXCEPT ![i] = set_family(sa[i], fam)]
    /\ hist' = [hist EXCEPT ![i].bySet = FALSE]
    /\ ret' = [Call("set_family", i) EXCEPT !.fam = fam]

SetAddr(i, ip) ==
    LET r == set_addr(sa[i], ip) IN
    /\ sa' = [sa EXCEPT ![i] = r.sa]
    /\ hist' = [hist EXCEPT ![i].bySet = hist[i].bySet /\ r.err # 0]
    /\ ret' = [Call("set_addr", i) EXCEPT !.text = ip, !.err = r.err]

SetPort(i, port) ==
    LET r == set_port(sa[i], port) IN
    /\ sa' = [sa EXCEPT ![i] = r.sa]
    /\ hist' = [hist EXCEPT ![i].bySet = hist[i].bySet /\ r.err # 0]
    /\ ret' = [Call("set_port", i) EXCEPT !.port = port, !.err = r.err]

Set(i, addr, port) ==
    LET r == set(sa[i], addr, port) IN
    /\ sa' = [sa EXCEPT ![i] = r.sa]
    /\ hist' = [hist EXCEPT ![i].bySet = hist[i].bySet \/ r.err = 0]
    /\ ret' = [Call("set", i) EXCEPT
                   !.text = addr, !.port = port, !.err = r.err]

\* set(j.data()): object i loads the native view of object j (j may be i)
SetNativeView(i, j) ==
    /\ sa' = [sa EXCEPT ![i] = set_native(sa[i], sa[j], i = j)]
    /\ hist' = [hist EXCEPT ![i] = Foreign]
    /\ ret' = [Call("set_native", i) EXCEPT !.other = j]

\* set(data): object i loads a structure the native socket layer supplies
SetNativeExt(i, e) ==
    /\ sa' = [sa EXCEPT ![i] = set_native(sa[i], ExternalStructs[e], FALSE)]
    /\ hist' = [hist EXCEPT ![i] = Foreign]
    /\ ret' = [Call("set_native", i) EXCEPT !.ext = e]

\* data(): the native socket layer writes a structure through the pointer
\* (accept, getpeername, recvfrom); only the structure's bytes are written
NativeWrite(i, e) ==
    LET w == ExternalStructs[e] IN
    /\ sa' = [sa EXCEPT ![i] = WriteBytes(sa[i], 0, ReadBytes(w, 0, NativeSpan(w)))]
    /\ hist' = [hist EXCEPT ![i] = Foreign]
    /\ ret' = [Call("data", i) EXCEPT !.ext = e]

GetFamily(i) ==
    /\ ret' = [Call("get_family", i) EXCEPT !.outNum = get_family(sa[i])]
    /\ UNCHANGED <<sa, hist>>

GetAddr(i) ==
    LET r == get_addr(sa[i], <<>>) IN
    /\ ret' = [Call("get_addr", i) EXCEPT !.err = r.err, !.outText = r.buf]
    /\ UNCHANGED <<sa, hist>>

GetPort(i) ==
    LET r == get_port(sa[i], 0) IN
    /\ ret' = [Call("get_port", i) EXCEPT !.err = r.err, !.outNum = r.port]
    /\ UNCHANGED <<sa, hist>>

Display(i) ==
    /\ ret' = [Call("display", i) EXCEPT !.outText = to_display_string(sa[i])]
    /\ UNCHANGED <<sa, hist>>

Equals(i, j) ==
    /\ ret' = [Call("eq", i) EXCEPT !.other = j, !.outBool = OpEqual(sa[i], sa[j])]
    /\ UNCHANGED <<sa, hist>>

NotEquals(i, j) ==
    /\ ret' = [Call("ne", i) EXCEPT !.other = j, !.outBool = OpNotEqual(sa[i], sa[j])]
    /\ UNCHANGED <<sa, hist>>

LessThan(i, j) ==
    /\ ret' = [Call("lt", i) EXCEPT !.other = j, !.outBool = OpLess(sa[i], sa[j])]
    /\ UNCHANGED <<sa, hist>>

(***************************************************************************)
(* Spec: every operation, with every input, called on object 1; object 2   *)
(* stays as default-constructed and is the operand of copies, loads and    *)
(* comparisons.                                                            *)
(***************************************************************************)
This == {1}
Peers == {1, 2}

Next ==
    \/ \E i \in This : Construct(i)
    \/ \E i \in This, j \in Peers : CopyConstruct(i, j)
    \/ \E i \in This, t \in Texts, p \in Ports : ConstructString(i, t, p)
    \/ \E i \in This, j \in Peers : Assign(i, j)
    \/ \E i \in This, f \in Families : SetFamily(i, f)
    \/ \E i \in This, t \in Texts : SetAddr(i, t)
    \/ \E i \in This, p \in Ports : SetPort(i, p)
    \/ \E i \in This, t \in Texts, p \in Ports : Set(i, t, p)
    \/ \E i \in This, j \in Peers : SetNativeView(i, j)
    \/ \E i \in This, e \in ExtIds : SetNativeExt(i, e)
    \/ \E i \in This, e \in ExtIds : NativeWrite(i, e)
    \/ \E i \in This : GetFamily(i)
    \/ \E i \in This : GetAddr(i)
    \/ \E i \in This : GetPort(i)
    \/ \E i \in This : Display(i)
    \/ \E i \in This, j \in Peers : Equals(i, j)
    \/ \E i \in This, j \in Peers : NotEquals(i, j)
    \/ \E i \in This, j \in Peers : LessThan(i, j)

Spec == Init /\ [][Next]_vars

(***************************************************************************)
(* SpecPair: objects 1 and 2, each constructed, set, copied and loaded     *)
(* from the other, with a few texts and ports.                             *)
(***************************************************************************)
Pair == {1, 2}
PairTexts == {T_127_0_0_1, T_loop6, T_loop6_full, T_not_an_ip}
\* the number of ports of PortList the pair is set to
NumPairPorts == 1
PairPorts == {PortList[k] : k \in 1..NumPairPorts}

NextPair ==
    \/ \E i \in Pair : Construct(i)
    \/ \E i, j \in Pair : CopyConstruct(i, j)
    \/ \E i \in Pair, t \in PairTexts, p \in PairPorts : ConstructString(i, t, p)
    \/ \E i, j \in Pair : Assign(i, j)
    \/ \E i \in Pair, f \in Families : SetFamily(i, f)
    \/ \E i \in Pair, t \in PairTexts : SetAddr(i, t)
    \/ \E i \in Pair, p \in PairPorts : SetPort(i, p)
    \/ \E i \in Pair, t \in PairTexts, p \in PairPorts : Set(i, t, p)
    \/ \E i, j \in Pair : SetNativeView(i, j)
    \/ \E i, j \in Pair : Equals(i, j)
    \/ \E i, j \in Pair : LessThan(i, j)

SpecPair == Init /\ [][NextPair]_vars

(***************************************************************************)
(* SpecCmp: the comparison operators on three objects whose storage holds  *)
(* any of a set of contents: addresses as set() leaves them, structures of *)
(* the socket layer, and regions that differ in one byte (the last, or one *)
(* above 127).                                                             *)
(***************************************************************************)
CmpSamples ==
    {Zero,
     set(Zero, T_127_0_0_1, 8080).sa,
     set(Zero, T_127_0_0_1, 65535).sa,
     set(Zero, T_loop6, 8080).sa,
     ExtSin,
     [Zero EXCEPT ![StorageSize - 1] = 1],
     [Zero EXCEPT ![StorageSize - 1] = 255],
     [ExtSin EXCEPT ![StorageSize - 1] = 127]}

InitCmp ==
    /\ sa \in [Objs -> CmpSamples]
    /\ hist = [i \in Objs |-> Foreign]
    /\ ret = Call("socketaddr", 0)

NextCmp ==
    \/ \E i, j \in Objs : Equals(i, j)
    \/ \E i, j \in Objs : NotEquals(i, j)
    \/ \E i, j \in Objs : LessThan(i, j)

SpecCmp == InitCmp /\ [][NextCmp]_vars

(***************************************************************************)
(* Address literals, by their grammar and not by the parser: what the      *)
(* properties below mean by "a valid literal".                             *)
(*   IPv4: four decimal numbers 0..255, one to three digits, no leading    *)
(*         zero, separated by ".".                                         *)
(*   IPv6: groups of one to four hexadecimal digits separated by ":",      *)
(*         eight of them, or fewer with one "::" standing for the missing  *)
(*         groups (at least one); the last two groups may be written as an *)
(*         IPv4 literal.                                                   *)
(***************************************************************************)
HexChars ==
    {"0", "1", "2", "3", "4", "5", "6", "7", "8", "9",
     "a", "b", "c", "d", "e", "f", "A", "B", "C", "D", "E", "F"}
DecChars == {"0", "1", "2", "3", "4", "5", "6", "7", "8", "9"}

\* the fields of t between the occurrences of the character c
Fields(t, c) ==
    LET P == {k \in 1..Len(t) : t[k] = c}
        n == Cardinality(P)
        pos == [i \in 0..(n + 1) |->
                   IF i = 0 THEN 0
                   ELSE IF i = n + 1 THEN Len(t) + 1
                   ELSE CHOOSE k \in P : Cardinality({j \in P : j < k}) = i - 1]
    IN  [i \in 1..(n + 1) |-> SubSeq(t, pos[i - 1] + 1, pos[i] - 1)]

RECURSIVE DecValue(_)
DecValue(f) ==
    IF Len(f) = 0 THEN 0
    ELSE 10 * DecValue(SubSeq(f, 1, Len(f) - 1))
         + (CHOOSE d \in 0..9 : DecDigits[d + 1] = f[Len(f)])

IsDecOctet(f) ==
    /\ Len(f) \in 1..3
    /\ \A k \in 1..Len(f) : f[k] \in DecChars
    /\ Len(f) > 1 => f[1] # "0"
    /\ DecValue(f) <= 255

IsHexGroup(f) ==
    /\ Len(f) \in 1..4
    /\ \A k \in 1..Len(f) : f[k] \in HexChars

ValidIPv4Literal(t) ==
    LET F == Fields(t, ".") IN
    Len(F) = 4 /\ \A i \in 1..4 : IsDecOctet(F[i])

\* groups G, the last of which may be an IPv4 literal when v4tail allows it
GroupsOK(G, v4tail) ==
    \A i \in 1..Len(G) :
        IsHexGroup(G[i]) \/ (v4tail /\ i = Len(G) /\ ValidIPv4Literal(G[i]))

\* the 16-bit groups that G stands for
GroupCount(G) ==
    Len(G) + (IF Len(G) > 0 /\ ~IsHexGroup(G[Len(G)]) THEN 1 ELSE 0)

ValidIPv6Literal(t) ==
    LET gaps == {k \in 1..(Len(t) - 1) : t[k] = ":" /\ t[k + 1] = ":"} IN
    IF gaps = {}
    THEN LET G == Fields(t, ":") IN GroupsOK(G, TRUE) /\ GroupCount(G) = 8
    ELSE /\ Cardinality(gaps) = 1
         /\ LET g == CHOOSE k \in gaps : TRUE
                L == SubSeq(t, 1, g - 1)
                R == SubSeq(t, g + 2, Len(t))
                GL == IF Len(L) = 0 THEN <<>> ELSE Fields(L, ":")
                GR == IF Len(R) = 0 THEN <<>> ELSE Fields(R, ":")
            IN  /\ GroupsOK(GL, FALSE)
                /\ GroupsOK(GR, TRUE)
                /\ Len(GL) + GroupCount(GR) <= 7

(***************************************************************************)
(* Properties.                                                             *)
(***************************************************************************)
\* the object the last call was made on, and whether the last call was op
Obj == sa[ret.obj]
Did(op) == ret.op = op /\ ret.obj \in Objs

\* a caller's string that already holds characters when get_addr is called
UsedBuf == [j \in 1..20 |-> "x"]

\* address() and port() fail with AddressFamilyUnsupported on s
AccessorsUnsupported(s) ==
    /\ get_addr(s, <<>>).err = EAFNOSUPPORT
    /\ get_port(s, 0).err = EAFNOSUPPORT

\* C1: after set(L, P) with L a valid IPv4 literal, from any prior state:
\* set returned success, family() is IPv4, address() is exactly L (also into
\* a string that held characters), port() is exactly P, the port field holds
\* P big-endian, and the display string is L ":" decimal P.
C1_SetIPv4 ==
    (Did("set") /\ ValidIPv4Literal(ret.text)) =>
        /\ ret.err = 0
        /\ get_family(Obj) = AF_INET
        /\ get_addr(Obj, <<>>) = [err |-> 0, buf |-> ret.text]
        /\ get_addr(Obj, UsedBuf) = [err |-> 0, buf |-> ret.text]
        /\ get_port(Obj, 0) = [err |-> 0, port |-> ret.port]
        /\ ReadBytes(Obj, PortOff, 2) = <<ret.port \div 256, ret.port % 256>>
        /\ to_display_string(Obj) = ret.text \o <<":">> \o DecStr(ret.port)

C1_Witness ==
    /\ Did("set") /\ ValidIPv4Literal(ret.text) /\ ret.port = 8080
    /\ to_display_string(Obj) =
           <<"1", "2", "7", ".", "0", ".", "0", ".", "1", ":", "8", "0", "8", "0">>

\* C2 as stated: after set(L, P) with L a valid IPv6 literal in any spelling,
\* address() is exactly L and the display string is "[" L "]:" decimal P.
C2_Original ==
    (Did("set") /\ ValidIPv6Literal(ret.text)) =>
        /\ ret.err = 0
        /\ get_family(Obj) = AF_INET6
        /\ get_addr(Obj, <<>>) = [err |-> 0, buf |-> ret.text]
        /\ get_port(Obj, 0) = [err |-> 0, port |-> ret.port]
        /\ to_display_string(Obj)
               = <<"[">> \o ret.text \o <<"]", ":">> \o DecStr(ret.port)

\* the canonical spelling of the address an IPv6 literal t denotes: what
\* inet_ntop gives for the 16 bytes t parses to
Canonical6(t) == inet_ntop6(inet_pton6(CStr(t)).bytes)

\* C2, amended: after set(L, P) with L a valid IPv6 literal (or any text
\* is_ipv6 accepts), from any prior state: set returned success, family() is
\* IPv6, port() is exactly P, address() is the canonical spelling of L's
\* address, which denotes the same 16 bytes as L and is L itself when L is
\* written canonically, and the display string is "[" address() "]:" decimal P.
C2_SetIPv6Canonical ==
    (Did("set") /\ (ValidIPv6Literal(ret.text) \/ is_ipv6(ret.text))) =>
        LET a == get_addr(Obj, <<>>) IN
        /\ ret.err = 0
        /\ get_family(Obj) = AF_INET6
        /\ a = [err |-> 0, buf |-> Canonical6(ret.text)]
        /\ get_addr(Obj, UsedBuf) = a
        /\ ValidIPv6Literal(a.buf)
        /\ inet_pton6(a.buf) = inet_pton6(CStr(ret.text))
        /\ ReadBytes(Obj, Sin6AddrOff, In6AddrSz) = inet_pton6(a.buf).bytes
        /\ (ret.text = Canonical6(ret.text) => a.buf = ret.text)
        /\ get_port(Obj, 0) = [err |-> 0, port |-> ret.port]
        /\ ReadBytes(Obj, PortOff, 2) = <<ret.port \div 256, ret.port % 256>>
        /\ to_display_string(Obj)
               = <<"[">> \o a.buf \o <<"]", ":">> \o DecStr(ret.port)

C2_Witness ==
    /\ Did("set") /\ ret.text = T_loop6_full /\ ret.port = 8080
    /\ to_display_string(Obj)
           = <<"[", ":", ":", "1", "]", ":", "8", "0", "8", "0">>

\* C3: for a text S that is neither a valid IPv4 nor a valid IPv6 literal,
\* is(AF_INET, S) and is(AF_INET6, S) are false and set(S, P) fails with
\* EAFNOSUPPORT.
C3_NonLiteralRejected ==
    (Did("set") /\ ~ValidIPv4Literal(ret.text) /\ ~ValidIPv6Literal(ret.text)) =>
        /\ ~is(AF_INET, ret.text)
        /\ ~is(AF_INET6, ret.text)
        /\ ret.err = EAFNOSUPPORT

\* C4: while family() is Unspecified, set_addr, set_port, get_addr and
\* get_port fail with EAFNOSUPPORT, for every text and port: as called, and
\* as any call on any object in that state would.
C4_UnspecifiedRejects ==
    /\ \A i \in Objs :
           get_family(sa[i]) = AF_UNSPEC =>
               /\ \A t \in Texts : set_addr(sa[i], t).err = EAFNOSUPPORT
               /\ \A p \in Ports : set_port(sa[i], p).err = EAFNOSUPPORT
               /\ AccessorsUnsupported(sa[i])
    /\ (ret.op \in {"set_addr", "set_port", "get_addr", "get_port"}
            /\ get_family(Obj) = AF_UNSPEC)
           => ret.err = EAFNOSUPPORT

C4_Witness ==
    /\ Did("set_addr") /\ ValidIPv4Literal(ret.text)
    /\ get_family(Obj) = AF_UNSPEC
    /\ ret.err = EAFNOSUPPORT
    /\ hist[ret.obj] = Foreign

\* C5: after B.set(A.data()) with A as a successful set(L, P) left it and B
\* another object in any prior state, B == A, neither is less than the
\* other, and B has A's family, address text and port.
C5_NativeRoundTrip ==
    (Did("set_native") /\ ret.other \in Objs /\ ret.other # ret.obj
         /\ hist[ret.other].bySet) =>
        LET A == sa[ret.other]
            B == Obj
        IN  /\ OpEqual(B, A) /\ OpEqual(A, B)
            /\ ~OpNotEqual(B, A)
            /\ ~OpLess(A, B) /\ ~OpLess(B, A)
            /\ get_family(A) \in {AF_INET, AF_INET6}
            /\ get_family(B) = get_family(A)
            /\ get_addr(B, <<>>) = get_addr(A, <<>>)
            /\ get_addr(B, <<>>).err = 0
            /\ get_port(B, 0) = get_port(A, 0)
            /\ get_port(B, 0).err = 0

C5_Witness ==
    /\ Did("set_native") /\ ret.other \in Objs /\ ret.other # ret.obj
    /\ hist[ret.other].bySet
    /\ get_family(Obj) = AF_INET6
    /\ get_port(Obj, 0).port = 8080
    /\ get_addr(Obj, <<>>).buf = T_loop6

\* C6: == is reflexive, symmetric and transitive; < is irreflexive,
\* transitive and asymmetric; exactly one of a < b, a == b, b < a holds;
\* != is the negation of ==.  (a, b, c range over all triples of contents.)
C6_OrderLaws ==
    LET a == sa[1]
        b == sa[2]
        c == sa[3]
    IN  /\ OpEqual(a, a)
        /\ OpEqual(a, b) => OpEqual(b, a)
        /\ (OpEqual(a, b) /\ OpEqual(b, c)) => OpEqual(a, c)
        /\ ~OpLess(a, a)
        /\ (OpLess(a, b) /\ OpLess(b, c)) => OpLess(a, c)
        /\ ~(OpLess(a, b) /\ OpLess(b, a))
        /\ \/ (OpLess(a, b) /\ ~OpEqual(a, b) /\ ~OpLess(b, a))
           \/ (~OpLess(a, b) /\ OpEqual(a, b) /\ ~OpLess(b, a))
           \/ (~OpLess(a, b) /\ ~OpEqual(a, b) /\ OpLess(b, a))
        /\ OpNotEqual(a, b) = ~OpEqual(a, b)
        /\ (ret.op = "eq" /\ ret.obj = 1 /\ ret.other = 2)
               => (ret.outBool = (a = b))

C6_Witness ==
    /\ ret.op = "lt" /\ ret.obj = 1 /\ ret.other = 3 /\ ret.outBool
    /\ OpLess(sa[1], sa[2]) /\ OpLess(sa[2], sa[3])
    /\ sa[2][StorageSize - 1] = 1 /\ sa[3][StorageSize - 1] = 255

\* the structure a set(const sockaddr*) call was given
LoadedFrom ==
    IF ret.ext # 0 THEN ExternalStructs[ret.ext] ELSE sa[ret.other]

\* the first n bytes of d, and zero after them
Prefix(d, n) == [k \in Idx |-> IF k < n THEN d[k] ELSE 0]

\* C7: set(const sockaddr*) of a structure whose family is neither AF_INET
\* nor AF_INET6 leaves the object, whatever it held, all zero and equal to a
\* default-constructed one; of an AF_INET or AF_INET6 structure it copies
\* that family's span and leaves every byte after the span zero.  (Given
\* its own data(), the object has cleared the structure before reading it.)
C7_LoadNativeSpan ==
    Did("set_native") =>
        IF ret.ext = 0 /\ ret.other = ret.obj
        THEN Obj = Zero
        ELSE LET d == LoadedFrom IN
             /\ sa_family(d) = AF_INET => Obj = Prefix(d, SizeofSin)
             /\ sa_family(d) = AF_INET6 => Obj = Prefix(d, SizeofSin6)
             /\ sa_family(d) \notin {AF_INET, AF_INET6} =>
                    /\ Obj = Zero
                    /\ get_family(Obj) = AF_UNSPEC
                    /\ OpEqual(Obj, Zero) /\ ~OpLess(Obj, Zero) /\ ~OpLess(Zero, Obj)

C7_Witness ==
    /\ Did("set_native") /\ ret.ext # 0
    /\ sa_family(LoadedFrom) = AF_INET6
    /\ LoadedFrom[SizeofSin6] # 0
    /\ Obj[SizeofSin6] = 0
    /\ Obj[SizeofSin6 - 1] = LoadedFrom[SizeofSin6 - 1]

\* C8: after set_family(f), from any state: family() is f and every byte
\* after the family tag is zero; for f IPv4 or IPv6, port() is 0 and the
\* address is the all-zero address.
C8_SetFamilyResets ==
    Did("set_family") =>
        /\ get_family(Obj) = ret.fam
        /\ \A k \in Idx : k >= 2 => Obj[k] = 0
        /\ ret.fam \in {AF_INET, AF_INET6} =>
               get_port(Obj, 0) = [err |-> 0, port |-> 0]
        /\ ret.fam = AF_INET =>
               get_addr(Obj, <<>>).buf = <<"0", ".", "0", ".", "0", ".", "0">>
        /\ ret.fam = AF_INET6 => get_addr(Obj, <<>>).buf = <<":", ":">>

C8_Witness ==
    /\ Did("set_family") /\ ret.fam = AF_INET6
    /\ get_family(Obj) = AF_INET6
    /\ hist[ret.obj] = Foreign

\* the fields of s that mean something for its family
Payload(s) ==
    IF sa_family(s) = AF_INET THEN ReadBytes(s, SinAddrOff, InAddrSz)
    ELSE IF sa_family(s) = AF_INET6 THEN ReadBytes(s, Sin6AddrOff, In6AddrSz)
    ELSE <<>>

Meaningful(s) ==
    {0, 1}
    \cup (IF sa_family(s) \in {AF_INET, AF_INET6}
          THEN {PortOff, PortOff + 1} ELSE {})
    \cup (IF sa_family(s) = AF_INET
          THEN SinAddrOff..(SinAddrOff + InAddrSz - 1) ELSE {})
    \cup (IF sa_family(s) = AF_INET6
          THEN Sin6AddrOff..(Sin6AddrOff + In6AddrSz - 1) ELSE {})

SameFields(a, b) ==
    /\ get_family(a) = get_family(b)
    /\ get_port(a, 0) = get_port(b, 0)
    /\ Payload(a) = Payload(b)

\* C9: for objects that were default-constructed and then changed only by
\* set_family, set_addr, set_port, set and copies of such objects: == holds
\* exactly when family, port and address payload agree; every byte outside
\* those fields is zero; and a set_addr, set_port or set that fails leaves
\* the storage as it was.
C9_EqualityIsFieldwise ==
    \A i \in Objs :
        hist[i].fromDefault =>
            /\ \A k \in Idx \ Meaningful(sa[i]) : sa[i][k] = 0
            /\ \A j \in Objs :
                   hist[j].fromDefault =>
                       (OpEqual(sa[i], sa[j]) <=> SameFields(sa[i], sa[j]))
            /\ \A t \in PairTexts :
                   set_addr(sa[i], t).err # 0 => set_addr(sa[i], t).sa = sa[i]
            /\ \A p \in PairPorts :
                   set_port(sa[i], p).err # 0 => set_port(sa[i], p).sa = sa[i]
            /\ \A t \in PairTexts, p \in PairPorts :
                   set(sa[i], t, p).err # 0 => set(sa[i], t, p).sa = sa[i]

C9_Witness ==
    /\ hist[1].fromDefault /\ hist[2].fromDefault
    /\ Did("set_addr") /\ ret.err = EINVAL
    /\ get_family(sa[1]) = AF_INET6 /\ get_family(sa[2]) = AF_INET6
    /\ get_port(sa[1], 0).port = 8080
    /\ OpEqual(sa[1], sa[2])
    /\ ~hist[1].bySet /\ ~hist[2].bySet

\* C10: an object constructed from a text that is no valid literal and a
\* port has family Unspecified and all-zero storage, equals a
\* default-constructed object, and its address() and port() fail with
\* EAFNOSUPPORT.
C10_StringCtorDetermined ==
    (Did("socketaddr_string")
         /\ ~ValidIPv4Literal(ret.text) /\ ~ValidIPv6Literal(ret.text)) =>
        /\ get_family(Obj) = AF_UNSPEC
        /\ Obj = Zero
        /\ OpEqual(Obj, Zero)
        /\ AccessorsUnsupported(Obj)

=============================================================================
